---- MODULE Spec2Model ----
(***************************************************************************)
(* BITRE Airline Fare Audit Engine (src/audit_engine.py).                  *)
(*                                                                         *)
(* One run of main(): load_data -> clean_data -> compute_mom_changes ->    *)
(* detect_revenue_leakage -> add_historical_notes -> build_chart ->        *)
(* print_summary.  A DataFrame is a record [cols, rows]: cols is the       *)
(* sequence of column labels, rows the sequence of rows, each row holding  *)
(* one cell per column.  A column label is a sequence of word tokens       *)
(* ("Real Business Class" is <<"Real","Business","Class">>, a leading or   *)
(* trailing blank is the token " "); str.lower works word by word and the  *)
(* substring tests of the code are tests on the lower-cased words.         *)
(* Floating point values are exact rationals n/d, with NaN and +-inf.      *)
(***************************************************************************)
EXTENDS Integers, Sequences, FiniteSets, TLC

VARIABLES
    files,          \* the air_fares* files of DATA_DIR, in glob order
    pc,             \* the statement of main() that runs next
    raw,            \* df_raw, the table load_data returned
    df,             \* df of main()
    resolved,       \* business_col, economy_col, discount_col of clean_data
    fill_method,    \* the fill_method pandas' pct_change() defaulted to
    err,            \* the exception that ended the run
    html_written,   \* OUTPUT_HTML has been written
    report_printed  \* the console report has been printed

vars == <<files, pc, raw, df, resolved, fill_method, err, html_written, report_printed>>

----------------------------------------------------------------------------
(* Cells *)

Cell(k, n, d) == [k |-> k, n |-> n, d |-> d]

\* a cell of the file as read: an empty cell, a non-numeric token ("n.a.",
\* "-", "Total"), a numeric literal, a date string (month m, day d)
Null == Cell("null", 0, 1)
Text == Cell("text", 0, 1)
NumStr(n) == Cell("numstr", n, 1)
DateStr(m, day) == Cell("datestr", m, day)

\* typed values: NaN/NaT/None is Null, a float n/d, +-inf, a Timestamp,
\* a bool, an official note (keyed by its month)
Inf(s) == Cell("inf", s, 1)
Date(m, day) == Cell("date", m, day)
Bool(b) == Cell("bool", IF b THEN 1 ELSE 0, 1)
Note(key) == Cell("note", key[1], key[2])

Abs(x) == IF x < 0 THEN -x ELSE x

RECURSIVE Gcd(_, _)
Gcd(a, b) == IF b = 0 THEN a ELSE Gcd(b, a % b)

\* the float n/d, in lowest terms with d > 0
Num(n, d) ==
    LET g == Gcd(Abs(n), Abs(d))
        s == IF d < 0 THEN -1 ELSE 1
    IN Cell("num", (s * n) \div g, (s * d) \div g)

IsNull(c) == c.k = "null"
NotNa(c) == c.k # "null"

----------------------------------------------------------------------------
(* Column labels *)

COL_BUSINESS == <<"Real", "Business", "Class">>
COL_ECONOMY == <<"Real", "Restricted", "Economy">>
COL_BEST_DISCOUNT == <<"Real", "Best", "Discount">>
COL_MONTH == <<"Month">>
NoCol == <<>>                  \* None

\* str.lower(), word by word
LowerWord(w) ==
    CASE w = "Month" -> "month"
      [] w = "Survey" -> "survey"
      [] w = "SURVEY" -> "survey"
      [] w = "Date" -> "date"
      [] w = "Real" -> "real"
      [] w = "Business" -> "business"
      [] w = "BUSINESS" -> "business"
      [] w = "Class" -> "class"
      [] w = "Restricted" -> "restricted"
      [] w = "Economy" -> "economy"
      [] w = "Best" -> "best"
      [] w = "Discount" -> "discount"
      [] w = "Fare" -> "fare"
      [] w = "Col" -> "col"
      [] w = "Unnamed:" -> "unnamed:"
      [] OTHER -> w

Lower(name) == [i \in 1..Len(name) |-> LowerWord(name[i])]

\* kw in s, for a lower-case keyword kw
Contains(s, kw) == \E i \in 1..Len(s) : s[i] = kw

\* str.strip(): leading and trailing blanks removed
RECURSIVE LStrip(_)
LStrip(name) ==
    IF Len(name) > 0 /\ name[1] = " " THEN LStrip(Tail(name)) ELSE name

RECURSIVE RStrip(_)
RStrip(name) ==
    IF Len(name) > 0 /\ name[Len(name)] = " "
    THEN RStrip(SubSeq(name, 1, Len(name) - 1)) ELSE name

Strip(name) == RStrip(LStrip(name))

StartsWithUnnamed(name) == Len(name) > 0 /\ name[1] = "Unnamed:"

\* "month" in str(c).lower() or "survey" in str(c).lower()
IsMonthName(name) == Contains(Lower(name), "month") \/ Contains(Lower(name), "survey")

----------------------------------------------------------------------------
(* DataFrame helpers *)

Positions(cols, name) == {i \in 1..Len(cols) : cols[i] = name}
InColumns(cols, name) == Positions(cols, name) # {}
Min(S) == CHOOSE x \in S : \A y \in S : x <= y

\* next((c for c in df.columns if P(c)), default), on column positions
FirstPos(S) == IF S = {} THEN 0 ELSE Min(S)

\* df.rename(columns={old: new}): every column labelled old is relabelled;
\* a key that labels no column is ignored
Rename(t, old, new) ==
    [t EXCEPT !.cols = [i \in 1..Len(t.cols) |->
                            IF t.cols[i] = old THEN new ELSE t.cols[i]]]

\* the cells of the (single) column labelled name
ColPos(t, name) == Min(Positions(t.cols, name))
Column(t, name) == [i \in 1..Len(t.rows) |-> t.rows[i].cells[ColPos(t, name)]]

\* df[name] = values
SetColumn(t, name, values) ==
    [t EXCEPT !.rows = [i \in 1..Len(t.rows) |->
        [t.rows[i] EXCEPT !.cells[ColPos(t, name)] = values[i]]]]

\* df[name] = values for a new label
AddColumn(t, name, values) ==
    [cols |-> Append(t.cols, name),
     rows |-> [i \in 1..Len(t.rows) |->
        [t.rows[i] EXCEPT !.cells = Append(t.rows[i].cells, values[i])]]]

RECURSIVE SelectSeq2(_, _)
\* the rows of a sequence whose index is in keep, in order
SelectSeq2(rows, keep) ==
    IF rows = <<>> THEN <<>>
    ELSE LET n == Len(rows)
             init == SelectSeq2(SubSeq(rows, 1, n - 1), keep)
         IN IF n \in keep THEN Append(init, rows[n]) ELSE init

FilterRows(t, keep) == [t EXCEPT !.rows = SelectSeq2(t.rows, keep)]

----------------------------------------------------------------------------
(* Outcomes of a function: a returned table, or a raised exception *)

NoTable == [cols |-> <<>>, rows |-> <<>>]
NoErr == [type |-> "none", at |-> "none", cols |-> <<>>]
Ok(t) == [ok |-> TRUE, t |-> t, err |-> NoErr]
Raise(type, at, cols) ==
    [ok |-> FALSE, t |-> NoTable, err |-> [type |-> type, at |-> at, cols |-> cols]]

----------------------------------------------------------------------------
(* Input files.  A file is [suffix, mtime, headers, tpls]: headers[h + 1]  *)
(* is the header row pd.read_csv / pd.read_excel finds with header=h, or   *)
(* <<>> when that read raises.  The data rows of a file are templates, one *)
(* cell per kind of column: the date column (the first one, or one named   *)
(* after the month or survey), the business, economy and discount index    *)
(* columns, the others.                                                    *)

ReadRaises == [ok |-> FALSE, cols |-> <<>>, rows |-> <<>>]

CellFor(tpl, name, p) ==
    LET s == Lower(Strip(name))
    IN CASE p = 1 \/ IsMonthName(Strip(name)) -> tpl.m
         [] Contains(s, "economy") -> tpl.e
         [] Contains(s, "business") -> tpl.b
         [] Contains(s, "discount") -> tpl.d
         [] OTHER -> tpl.o

FileRow(tpl, id, cols) ==
    [id |-> id, cells |-> [p \in 1..Len(cols) |-> CellFor(tpl, cols[p], p)]]

ReadTable(cols, tpls) ==
    [ok |-> TRUE, cols |-> cols,
     rows |-> [i \in 1..Len(tpls) |-> FileRow(tpls[i], i, cols)]]

\* pd.read_csv(data_path, header=h) / pd.read_excel(data_path, header=h)
Read(f, h) ==
    IF f.headers[h + 1] = <<>> THEN ReadRaises ELSE ReadTable(f.headers[h + 1], f.tpls)

----------------------------------------------------------------------------
(* _find_air_fares_file and load_data *)

HeaderRows == 5           \* range(5)
LastHeaderRow == 4        \* header_row < 4
XlsxHeader == 2           \* pd.read_excel(data_path, header=2)

\* max(patterns, key=st_mtime): the first file of the newest modification time
FindAirFaresFile(fs) ==
    LET newest == {i \in 1..Len(fs) : \A j \in 1..Len(fs) : fs[j].mtime <= fs[i].mtime}
    IN FirstPos(newest)

\* df.columns = df.columns.str.strip()
StripColumns(t) == [t EXCEPT !.cols = [i \in 1..Len(t.cols) |-> Strip(t.cols[i])]]

\* sum(1 for c in df.columns if str(c).startswith("Unnamed"))
UnnamedCount(cols) == Cardinality({i \in 1..Len(cols) : StartsWithUnnamed(cols[i])})

\* the offset is skipped: the header row is a title row
RejectedOffset(cols, header_row) ==
    UnnamedCount(cols) >= Len(cols) - 1 /\ header_row < LastHeaderRow

\* next((c for c in df.columns if "month" in ... or "survey" in ...), df.columns[0])
CsvMonthPos(cols) ==
    LET p == FirstPos({i \in 1..Len(cols) : IsMonthName(cols[i])})
    IN IF p = 0 THEN 1 ELSE p

\* lines 62-68: the month column is renamed; the second rename runs only
\* when no column is labelled Month after the first
CsvRenameMonth(t) ==
    LET t1 == Rename(t, t.cols[CsvMonthPos(t.cols)], COL_MONTH)
    IN IF ~InColumns(t1.cols, COL_MONTH) THEN Rename(t1, t1.cols[1], COL_MONTH) ELSE t1

\* XlsxRenameMonth, were the month column looked up by name as for csv
XlsxRenameMonthByName(t) == CsvRenameMonth(t)

\* lines 76-80: both branches of the test on first_col rename the first column
XlsxRenameMonth(t) ==
    LET first_col == t.cols[1]
    IN IF IsMonthName(first_col)
       THEN Rename(t, first_col, COL_MONTH)
       ELSE Rename(t, t.cols[1], COL_MONTH)

RECURSIVE CsvLoop(_, _, _)
\* for header_row in range(5): cur is [bound, t], the local df so far.
\* A read that raises, or a raise while its columns are handled, is caught
\* and the loop continues; a rejected offset leaves its table in df.
CsvLoop(f, header_row, cur) ==
    IF header_row >= HeaderRows THEN cur
    ELSE LET r == Read(f, header_row) IN
         IF ~r.ok THEN CsvLoop(f, header_row + 1, cur)
         ELSE LET t == StripColumns([cols |-> r.cols, rows |-> r.rows]) IN
              IF RejectedOffset(t.cols, header_row)
              THEN CsvLoop(f, header_row + 1, [bound |-> TRUE, t |-> t])
              ELSE [bound |-> TRUE, t |-> CsvRenameMonth(t)]

\* load_data(): the table returned, or the exception raised
LoadDataOf(fs) ==
    IF Len(fs) = 0 THEN Raise("FileNotFoundError", "load_data", <<>>)
    ELSE LET f == fs[FindAirFaresFile(fs)] IN
         IF f.suffix = ".csv"
         THEN LET r == CsvLoop(f, 0, [bound |-> FALSE, t |-> NoTable])
              IN IF r.bound THEN Ok(r.t)
                 ELSE Raise("UnboundLocalError", "load_data", <<>>)
         ELSE LET r == Read(f, XlsxHeader)
              IN IF ~r.ok THEN Raise("ParseError", "load_data", <<>>)
                 ELSE Ok(XlsxRenameMonth(StripColumns([cols |-> r.cols, rows |-> r.rows])))

----------------------------------------------------------------------------
(* clean_data *)

BusinessPos == 2          \* len(df.columns) >= 2, df.columns[1]
EconomyPos == 6           \* len(df.columns) >= 6, df.columns[5]
DiscountPos == 8          \* len(df.columns) >= 8, df.columns[7]

\* pd.to_datetime(..., errors="coerce") of one cell: a date string parses,
\* anything else (empty, "Total", a bare number token) becomes NaT
ToDatetime(c) ==
    CASE c.k = "datestr" -> Date(c.n, c.d)
      [] c.k = "date" -> c
      [] OTHER -> Null

\* pd.to_numeric(..., errors="coerce") of one cell: a numeric literal parses,
\* a Timestamp becomes its integer value, any other token becomes NaN
ToNumeric(c) ==
    CASE c.k = "numstr" -> Num(c.n, 1)
      [] c.k = "num" -> c
      [] c.k = "inf" -> c
      [] c.k = "date" -> Num(c.n * 31 + c.d, 1)
      [] OTHER -> Null

\* COL_X if COL_X in df.columns else None
ExactCol(cols, canonical) == IF InColumns(cols, canonical) THEN canonical ELSE NoCol

IsBusinessName(s) == Contains(s, "business") /\ ~Contains(s, "restricted")
IsEconomyName(s) == Contains(s, "restricted") /\ Contains(s, "economy")
IsDiscountName(s) == Contains(s, "best") /\ Contains(s, "discount")

\* the keyword test of one target column, on a lower-cased label
NameMatches(target, s) ==
    CASE target = "business" -> IsBusinessName(s)
      [] target = "economy" -> IsEconomyName(s)
      [] OTHER -> IsDiscountName(s)

Canonical(target) ==
    CASE target = "business" -> COL_BUSINESS
      [] target = "economy" -> COL_ECONOMY
      [] OTHER -> COL_BEST_DISCOUNT

FallbackPos(target) ==
    CASE target = "business" -> BusinessPos
      [] target = "economy" -> EconomyPos
      [] OTHER -> DiscountPos

\* next((c for c in df.columns if <keywords in str(c).lower()>), None)
KeywordCol(cols, target) ==
    LET p == FirstPos({i \in 1..Len(cols) : NameMatches(target, Lower(cols[i]))})
    IN IF p = 0 THEN NoCol ELSE cols[p]

\* df.columns[pos - 1] if len(df.columns) >= pos
PositionalCol(cols, pos) == IF Len(cols) >= pos THEN cols[pos] ELSE NoCol

\* ResolveCol, were the keywords tried before the exact name
ResolveColKeywordFirst(cols, target) ==
    LET keyword == KeywordCol(cols, target)
        exact == IF keyword = NoCol THEN ExactCol(cols, Canonical(target)) ELSE keyword
    IN IF exact = NoCol THEN PositionalCol(cols, FallbackPos(target)) ELSE exact

\* lines 96-120 for one target column: exact name, else keywords, else position
ResolveCol(cols, target) ==
    LET exact == ExactCol(cols, Canonical(target))
        keyword == IF exact = NoCol THEN KeywordCol(cols, target) ELSE exact
    IN IF keyword = NoCol THEN PositionalCol(cols, FallbackPos(target)) ELSE keyword

ResolveColumns(cols) ==
    [business |-> ResolveCol(cols, "business"),
     economy |-> ResolveCol(cols, "economy"),
     discount |-> ResolveCol(cols, "discount")]

Unresolved == [business |-> NoCol, economy |-> NoCol, discount |-> NoCol]

\* df[col] = pd.to_numeric(df[col], errors="coerce")
CoerceColumn(t, col) ==
    LET v == Column(t, col)
    IN SetColumn(t, col, [i \in 1..Len(t.rows) |-> ToNumeric(v[i])])

\* df.rename(columns=mapping) for the dict {business_col: COL_BUSINESS,
\* economy_col: COL_ECONOMY}: each label is looked up once, and of two equal
\* keys the dict keeps the later value
RenameIndices(t, r) ==
    [t EXCEPT !.cols = [i \in 1..Len(t.cols) |->
        IF t.cols[i] = r.economy THEN COL_ECONOMY
        ELSE IF t.cols[i] = r.business THEN COL_BUSINESS
        ELSE t.cols[i]]]

\* keep_cols
KeepCols(cols) ==
    IF InColumns(cols, COL_BEST_DISCOUNT)
    THEN <<COL_MONTH, COL_BUSINESS, COL_ECONOMY, COL_BEST_DISCOUNT>>
    ELSE <<COL_MONTH, COL_BUSINESS, COL_ECONOMY>>

\* df[keep_cols], every label of keep_cols being a (single) column of df
SelectCols(t, keep) ==
    [cols |-> keep,
     rows |-> [i \in 1..Len(t.rows) |->
        [t.rows[i] EXCEPT !.cells =
            [j \in 1..Len(keep) |-> t.rows[i].cells[ColPos(t, keep[j])]]]]]

\* DropNaIndices, were it how="any"
DropNaAnyIndex(t) ==
    FilterRows(t, {i \in 1..Len(t.rows) :
        NotNa(Column(t, COL_BUSINESS)[i]) /\ NotNa(Column(t, COL_ECONOMY)[i])})

\* .dropna(how="all", subset=[COL_BUSINESS, COL_ECONOMY])
DropNaIndices(t) ==
    FilterRows(t, {i \in 1..Len(t.rows) :
        NotNa(Column(t, COL_BUSINESS)[i]) \/ NotNa(Column(t, COL_ECONOMY)[i])})

\* Timestamp order
DateLeq(a, b) == a.n < b.n \/ (a.n = b.n /\ a.d <= b.d)

\* SortValues, were the rows left in file order
SortValuesKeepOrder(t) == {t}

\* .sort_values(COL_MONTH): the default sort (quicksort) is not stable, so
\* rows of equal Month may come out in any order: the set of possible results
SortValues(t) ==
    LET n == Len(t.rows)
        m == Column(t, COL_MONTH)
        perms == {p \in [1..n -> 1..n] :
                    /\ \A i, j \in 1..n : i # j => p[i] # p[j]
                    /\ \A i \in 1..n : i < n => DateLeq(m[p[i]], m[p[i + 1]])}
    IN {[t EXCEPT !.rows = [i \in 1..n |-> t.rows[p[i]]]] : p \in perms}

\* lines 126-143, once the columns are resolved to r (business and economy found)
CoerceRenameKeep(t, r) ==
    LET dup(c) == Cardinality(Positions(t.cols, c)) > 1
    IN IF dup(r.business) \/ dup(r.economy) \/ (r.discount # NoCol /\ dup(r.discount))
       THEN {Raise("TypeError", "clean_data", <<>>)}
       ELSE LET t1 == CoerceColumn(CoerceColumn(t, r.business), r.economy)
                t2 == IF r.discount # NoCol THEN CoerceColumn(t1, r.discount) ELSE t1
                t3 == RenameIndices(t2, r)
                t4 == IF r.discount # NoCol THEN Rename(t3, r.discount, COL_BEST_DISCOUNT) ELSE t3
                keep == KeepCols(t4.cols)
            IN IF \E j \in 1..Len(keep) : ~InColumns(t4.cols, keep[j])
               THEN {Raise("KeyError:keep_cols", "clean_data", <<>>)}
               ELSE {Ok(s) : s \in SortValues(DropNaIndices(SelectCols(t4, keep)))}

\* clean_data(df): the possible outcomes, each with the columns it resolved
CleanDataOf(t) ==
    IF ~InColumns(t.cols, COL_MONTH)
    THEN {[out |-> Raise("KeyError:Month", "clean_data", <<>>), resolved |-> Unresolved]}
    ELSE IF Cardinality(Positions(t.cols, COL_MONTH)) > 1
    THEN {[out |-> Raise("ValueError", "clean_data", <<>>), resolved |-> Unresolved]}
    ELSE LET m == Column(t, COL_MONTH)
             t1 == SetColumn(t, COL_MONTH, [i \in 1..Len(t.rows) |-> ToDatetime(m[i])])
             t2 == FilterRows(t1, {i \in 1..Len(t1.rows) : NotNa(Column(t1, COL_MONTH)[i])})
             r == ResolveColumns(t2.cols)
         IN IF r.business = NoCol \/ r.economy = NoCol
            THEN {[out |-> Raise("SchemaError", "clean_data", t2.cols), resolved |-> r]}
            ELSE {[out |-> o, resolved |-> r] : o \in CoerceRenameKeep(t2, r)}

----------------------------------------------------------------------------
(* compute_mom_changes and detect_revenue_leakage *)

EconomyDropPct == -10     \* df["Economy_MoM_pct"] < -10
StableLowPct == -3        \* df["Business_MoM_pct"] >= -3
StableHighPct == 3        \* df["Business_MoM_pct"] <= 3
Hundred == 100            \* pct_change() * 100

BUSINESS_MOM == <<"Business_MoM_pct">>
ECONOMY_MOM == <<"Economy_MoM_pct">>
REVENUE_LEAKAGE == <<"REVENUE_LEAKAGE">>
OFFICIAL_NOTE == <<"official_note">>

Sign(x) == IF x < 0 THEN -1 ELSE 1

\* FDiv, were a division by zero NaN
FDivNanOnZero(a, b) ==
    CASE IsNull(a) \/ IsNull(b) -> Null
      [] a.k = "inf" /\ b.k = "inf" -> Null
      [] a.k = "inf" -> Inf(a.n * Sign(b.n))
      [] b.k = "inf" -> Num(0, 1)
      [] b.n = 0 -> Null
      [] OTHER -> Num(a.n * b.d, a.d * b.n)

\* a / b on floats: NaN propagates, x/0 is +-inf and 0/0 is NaN
FDiv(a, b) ==
    CASE IsNull(a) \/ IsNull(b) -> Null
      [] a.k = "inf" /\ b.k = "inf" -> Null
      [] a.k = "inf" -> Inf(a.n * Sign(b.n))
      [] b.k = "inf" -> Num(0, 1)
      [] b.n = 0 /\ a.n = 0 -> Null
      [] b.n = 0 -> Inf(Sign(a.n))
      [] OTHER -> Num(a.n * b.d, a.d * b.n)

\* a - k and a * k on floats, k an integer (k > 0 for the product)
FSub(a, k) == IF a.k = "num" THEN Num(a.n - k * a.d, a.d) ELSE a
FMul(a, k) == IF a.k = "num" THEN Num(a.n * k, a.d) ELSE a

\* Series.ffill(): a NaN takes the last value before it that is not NaN
RECURSIVE Ffill(_)
Ffill(v) ==
    IF Len(v) <= 1 THEN v
    ELSE LET n == Len(v)
             init == Ffill(SubSeq(v, 1, n - 1))
         IN Append(init, IF IsNull(v[n]) THEN init[n - 1] ELSE v[n])

\* Series.pct_change(): data / data.shift(1) - 1, data being the series
\* itself, or the series forward-filled when fill_method defaults to "pad"
PctChange(v, fm) ==
    LET data == IF fm = "pad" THEN Ffill(v) ELSE v
    IN [i \in 1..Len(v) |-> IF i = 1 THEN Null ELSE FSub(FDiv(data[i], data[i - 1]), 1)]

\* df[col].pct_change() * 100
MoMPct(t, col, fm) ==
    LET r == PctChange(Column(t, col), fm)
    IN [i \in 1..Len(t.rows) |-> FMul(r[i], Hundred)]

ComputeMomChangesOf(t, fm) ==
    AddColumn(AddColumn(t, BUSINESS_MOM, MoMPct(t, COL_BUSINESS, fm)),
              ECONOMY_MOM, MoMPct(t, COL_ECONOMY, fm))

\* float comparisons with an integer: False on NaN
FLt(a, k) == (a.k = "num" /\ a.n < k * a.d) \/ (a.k = "inf" /\ a.n < 0)
FLeq(a, k) == (a.k = "num" /\ a.n <= k * a.d) \/ (a.k = "inf" /\ a.n < 0)
FGeq(a, k) == (a.k = "num" /\ a.n >= k * a.d) \/ (a.k = "inf" /\ a.n > 0)

\* EconomyDrop, were the bound inclusive
EconomyDropInclusive(e) == FLeq(e, EconomyDropPct)

\* lines 161-163, for one row
EconomyDrop(e) == FLt(e, EconomyDropPct)
BusinessStable(b) == FGeq(b, StableLowPct) /\ FLeq(b, StableHighPct)
LeakageFlag(b, e) == EconomyDrop(e) /\ BusinessStable(b)

DetectRevenueLeakageOf(t) ==
    LET b == Column(t, BUSINESS_MOM)
        e == Column(t, ECONOMY_MOM)
    IN AddColumn(t, REVENUE_LEAKAGE, [i \in 1..Len(t.rows) |-> Bool(LeakageFlag(b[i], e[i]))])

----------------------------------------------------------------------------
(* add_historical_notes, build_chart, print_summary *)

\* the keys of HISTORICAL_CONTEXT, as <<year, month>>
HISTORICAL_CONTEXT == {<<2011, 6>>, <<2012, 1>>, <<2015, 3>>, <<2017, 11>>, <<2020, 4>>}

\* a Timestamp counts months as 12 * year + (month - 1); strftime("%Y-%m")
Strftime(c) == <<c.n \div 12, (c.n % 12) + 1>>

AddHistoricalNotesOf(t) ==
    LET m == Column(t, COL_MONTH)
    IN AddColumn(t, OFFICIAL_NOTE, [i \in 1..Len(t.rows) |->
            IF Strftime(m[i]) \in HISTORICAL_CONTEXT THEN Note(Strftime(m[i])) ELSE Null])

\* df[COL_MONTH].min().strftime("%Y-%m") raises on NaT, the minimum of no rows
PrintSummaryRaises(t) == Len(t.rows) = 0

----------------------------------------------------------------------------
(* main() *)

Fail(e) ==
    /\ pc' = "failed"
    /\ err' = e

LoadData ==
    /\ pc = "load_data"
    /\ LET o == LoadDataOf(files)
       IN IF o.ok
          THEN /\ raw' = o.t
               /\ pc' = "clean_data"
               /\ err' = err
          ELSE /\ Fail(o.err)
               /\ raw' = raw
    /\ UNCHANGED <<files, df, resolved, fill_method, html_written, report_printed>>

CleanData ==
    /\ pc = "clean_data"
    /\ \E o \in CleanDataOf(raw) :
        /\ resolved' = o.resolved
        /\ IF o.out.ok
           THEN /\ df' = o.out.t
                /\ pc' = "compute_mom_changes"
                /\ err' = err
           ELSE /\ Fail(o.out.err)
                /\ df' = df
    /\ UNCHANGED <<files, raw, fill_method, html_written, report_printed>>

ComputeMomChanges ==
    /\ pc = "compute_mom_changes"
    /\ \E fm \in {"pad", "none"} :
        /\ fill_method' = fm
        /\ df' = ComputeMomChangesOf(df, fm)
    /\ pc' = "detect_revenue_leakage"
    /\ UNCHANGED <<files, raw, resolved, err, html_written, report_printed>>

DetectRevenueLeakage ==
    /\ pc = "detect_revenue_leakage"
    /\ df' = DetectRevenueLeakageOf(df)
    /\ pc' = "add_historical_notes"
    /\ UNCHANGED <<files, raw, resolved, fill_method, err, html_written, report_printed>>

AddHistoricalNotes ==
    /\ pc = "add_historical_notes"
    /\ df' = AddHistoricalNotesOf(df)
    /\ pc' = "build_chart"
    /\ UNCHANGED <<files, raw, resolved, fill_method, err, html_written, report_printed>>

BuildChart ==
    /\ pc = "build_chart"
    /\ html_written' = TRUE
    /\ pc' = "print_summary"
    /\ UNCHANGED <<files, raw, df, resolved, fill_method, err, report_printed>>

PrintSummary ==
    /\ pc = "print_summary"
    /\ IF PrintSummaryRaises(df)
       THEN /\ Fail([type |-> "ValueError", at |-> "print_summary", cols |-> <<>>])
            /\ report_printed' = report_printed
       ELSE /\ report_printed' = TRUE
            /\ pc' = "done"
            /\ err' = err
    /\ UNCHANGED <<files, raw, df, resolved, fill_method, html_written>>

Next ==
    \/ LoadData
    \/ CleanData
    \/ ComputeMomChanges
    \/ DetectRevenueLeakage
    \/ AddHistoricalNotes
    \/ BuildChart
    \/ PrintSummary

\* the state of main() before its first statement, for the files fs
Start(fs) ==
    /\ files = fs
    /\ pc = "load_data"
    /\ raw = NoTable
    /\ df = NoTable
    /\ resolved = Unresolved
    /\ fill_method = "unset"
    /\ err = NoErr
    /\ html_written = FALSE
    /\ report_printed = FALSE

----------------------------------------------------------------------------
(* Inputs *)

\* a file whose every header offset reads the same header
UniformFile(suffix, cols, tpls) ==
    [suffix |-> suffix, mtime |-> 1, headers |-> [h \in 1..HeaderRows |-> cols], tpls |-> tpls]

Mar2020 == 2020 * 12 + 2
Apr2020 == 2020 * 12 + 3

Unnamed(p) == <<"Unnamed:", ToString(p - 1)>>
Filler(p) == <<"Col", ToString(p)>>

\* the usual layout of the published file, and a title row read as header
GoodHeader == <<COL_MONTH, COL_BUSINESS, <<"Restricted", "Economy", "Fare">>, COL_BEST_DISCOUNT>>
TitleHeader == <<<<"Air", "Fares">>, Unnamed(2), Unnamed(3)>>

GoodRow(m) ==
    [m |-> DateStr(m, 1), b |-> NumStr(100), e |-> NumStr(90), d |-> NumStr(50), o |-> NumStr(1)]
BadMonthRow == [GoodRow(Apr2020) EXCEPT !.m = Text]
NoIndexRow == [GoodRow(Apr2020) EXCEPT !.b = Text, !.e = Null]

(* Spec: whole runs of main() over files found, missing, readable or not *)

MaxRowsMain == 2
MaxMtime == 2

MainTemplates == {GoodRow(Mar2020), GoodRow(Apr2020), BadMonthRow, NoIndexRow}

MainHeaders ==
    {hs \in [1..HeaderRows -> {<<>>, TitleHeader, GoodHeader}] :
        \A h \in 2..HeaderRows : hs[h] # TitleHeader}

MainFile(sfx, hs, tpls) == [suffix |-> sfx, mtime |-> 1, headers |-> hs, tpls |-> tpls]

\* an older or newer second file beside the first
OtherFiles(maxMtime) ==
    {[UniformFile(sfx, hdr, <<GoodRow(Apr2020)>>) EXCEPT !.mtime = t] :
        sfx \in {".csv", ".xlsx"}, hdr \in {GoodHeader, TitleHeader}, t \in 0..maxMtime}

Init ==
    \/ Start(<<>>)
    \/ \E sfx \in {".csv", ".xlsx"}, hs \in MainHeaders, n \in 0..MaxRowsMain :
         \E tpls \in [1..n -> MainTemplates] :
            \/ Start(<<MainFile(sfx, hs, tpls)>>)
            \/ /\ hs[1] = <<>> /\ hs[2] = <<>>
               /\ \E g \in OtherFiles(MaxMtime) : Start(<<MainFile(sfx, hs, tpls), g>>)

Spec == Init /\ [][Next]_vars

(* SpecLoad: every header offset of the file reads differently *)

MaxRowsLoad == 1

LoadHeaders == {TitleHeader, <<Unnamed(1), Filler(2), Filler(3)>>, GoodHeader}

InitLoad ==
    \E sfx \in {".csv", ".xlsx"}, hs \in [1..HeaderRows -> {<<>>} \cup LoadHeaders],
       n \in 0..MaxRowsLoad :
        Start(<<[suffix |-> sfx, mtime |-> 1, headers |-> hs,
                 tpls |-> [i \in 1..n |-> GoodRow(Apr2020)]]>>)

SpecLoad == InitLoad /\ [][Next]_vars

(* SpecMonth: headers of up to MaxMonthCols distinct labels *)

MaxMonthCols == 3

MonthLabels(p) ==
    {COL_MONTH, <<" ", "Month">>, <<"SURVEY", "Date">>, COL_BUSINESS, COL_ECONOMY,
     Unnamed(p), Filler(p)}

Distinct(h) == \A i, j \in 1..Len(h) : i # j => h[i] # h[j]

MonthHeaders(maxCols) ==
    {h \in UNION {[1..n -> UNION {MonthLabels(p) : p \in 1..n}] : n \in 1..maxCols} :
        /\ \A p \in 1..Len(h) : h[p] \in MonthLabels(p)
        /\ Distinct(h)}

InitMonth ==
    \E sfx \in {".csv", ".xlsx"}, h \in MonthHeaders(MaxMonthCols) :
        Start(<<UniformFile(sfx, h, <<GoodRow(Apr2020)>>)>>)

SpecMonth == InitMonth /\ [][Next]_vars

(* SpecCols: headers of up to MaxCols columns, two of them with a label of  *)
(* its own and the others plain                                            *)

MaxCols == 8

SpecialLabels ==
    {COL_MONTH, <<"SURVEY", "Date">>, COL_BUSINESS, <<"BUSINESS", "Fare">>, COL_ECONOMY,
     <<"Business", "Restricted", "Economy">>, COL_BEST_DISCOUNT, <<"Best", "Discount", " ">>}

ColsHeaders(maxCols) ==
    UNION {
        {h \in {[p \in 1..n |-> IF p = p1 THEN s1 ELSE IF p = p2 THEN s2 ELSE Filler(p)] :
                    p1 \in 1..n, p2 \in 1..n, s1 \in SpecialLabels \cup {<<>>},
                    s2 \in SpecialLabels \cup {<<>>}} :
            /\ Distinct(h)
            /\ \A p \in 1..n : h[p] # <<>>}
        : n \in 1..maxCols}

InitCols ==
    \E sfx \in {".csv", ".xlsx"}, h \in ColsHeaders(MaxCols) :
        Start(<<UniformFile(sfx, h, <<GoodRow(Apr2020)>>)>>)

SpecCols == InitCols /\ [][Next]_vars

(* SpecRows: the usual layout, rows with any month and any tokens *)

MaxRows == 2

RowTemplates ==
    {[m |-> m, b |-> b, e |-> e, d |-> d, o |-> NumStr(1)] :
        m \in {DateStr(Mar2020, 1), DateStr(Apr2020, 1), DateStr(Apr2020, 15), Text},
        b \in {NumStr(100), Text},
        e \in {NumStr(90), Null},
        d \in {NumStr(50), Text}}

InitRows ==
    \E n \in 0..MaxRows : \E tpls \in [1..n -> RowTemplates] :
        Start(<<UniformFile(".xlsx", GoodHeader, tpls)>>)

SpecRows == InitRows /\ [][Next]_vars

(* SpecMoM and SpecFlag: one row a month, index values null, zero, negative *)

MaxRowsMoM == 3
MaxRowsFlag == 2

\* row i is dated month i after March 2020
MonthlyRows(bs, es) ==
    [i \in 1..Len(bs) |-> [m |-> DateStr(Mar2020 + i, 1), b |-> bs[i], e |-> es[i],
                           d |-> NumStr(50), o |-> NumStr(1)]]

InitMonthly(maxRows, B, E) ==
    \E n \in 0..maxRows : \E bs \in [1..n -> B], es \in [1..n -> E] :
        Start(<<UniformFile(".xlsx", GoodHeader, MonthlyRows(bs, es))>>)

InitMoM ==
    InitMonthly(MaxRowsMoM, {Null, NumStr(0), NumStr(100), NumStr(-50)},
                {Null, NumStr(90), NumStr(99)})

SpecMoM == InitMoM /\ [][Next]_vars

InitFlag ==
    InitMonthly(MaxRowsFlag,
                {Null, NumStr(100), NumStr(103), NumStr(104), NumStr(97), NumStr(96)},
                {Null, NumStr(0), NumStr(100), NumStr(90), NumStr(89), NumStr(-5)})

SpecFlag == InitFlag /\ [][Next]_vars

----------------------------------------------------------------------------
(* Properties *)

\* load_data returned a table
Loaded == pc # "load_data" /\ ~(pc = "failed" /\ err.at = "load_data")

\* clean_data returned a table
Cleaned == Loaded /\ pc # "clean_data" /\ ~(pc = "failed" /\ err.at = "clean_data")

\* clean_data reached its column resolution (lines 95-124)
ResolutionRan ==
    /\ Loaded
    /\ pc # "clean_data"
    /\ ~(pc = "failed" /\ err.type \in {"KeyError:Month", "ValueError"})

SchemaErrorRaised == pc = "failed" /\ err.type = "SchemaError"

Computed == Cleaned /\ InColumns(df.cols, ECONOMY_MOM)
Detected == Cleaned /\ InColumns(df.cols, REVENUE_LEAKAGE)

TheFile == files[FindAirFaresFile(files)]

(* C1 *)

\* C1 as stated: the table clean_data returns has strictly increasing Month
\* values, Month[i] < Month[i+1] for all adjacent rows
C1_StrictlyIncreasing ==
    Cleaned =>
        LET m == Column(df, COL_MONTH)
        IN \A i \in 1..Len(df.rows) - 1 :
            m[i].n < m[i + 1].n \/ (m[i].n = m[i + 1].n /\ m[i].d < m[i + 1].d)

\* C1 amended: the table clean_data returns is sorted by Month ascending,
\* Month[i] <= Month[i+1] for all adjacent rows; equal months are kept
C1_SortedAscending ==
    Cleaned =>
        LET m == Column(df, COL_MONTH)
        IN \A i \in 1..Len(df.rows) - 1 :
            m[i].n < m[i + 1].n \/ (m[i].n = m[i + 1].n /\ m[i].d <= m[i + 1].d)

\* two raw rows of the same date both come out of clean_data
C1_Witness ==
    /\ Cleaned
    /\ Len(df.rows) = 2
    /\ Column(df, COL_MONTH)[1] = Column(df, COL_MONTH)[2]

(* C2 *)

\* (cur / prev - 1) * 100 for two floats cur and prev, prev not zero
C2_Formula(cur, prev) == Num((cur.n * prev.d - prev.n * cur.d) * 100, prev.n * cur.d)

\* C2 as stated: the MoM value of row i is the formula when i > 1 and both
\* values are non-null and the prior is non-zero, and null otherwise
C2_StatedValue(v, i) ==
    IF i > 1 /\ v[i].k = "num" /\ v[i - 1].k = "num" /\ v[i - 1].n # 0
    THEN C2_Formula(v[i], v[i - 1])
    ELSE Null

\* C2 as stated: after compute_mom_changes every Business_MoM_pct and
\* Economy_MoM_pct is the formula when both values are non-null and the
\* prior non-zero, and null in every other case
C2_NullOnNullOrZeroPrior ==
    Computed =>
        \A i \in 1..Len(df.rows) :
            /\ Column(df, BUSINESS_MOM)[i] = C2_StatedValue(Column(df, COL_BUSINESS), i)
            /\ Column(df, ECONOMY_MOM)[i] = C2_StatedValue(Column(df, COL_ECONOMY), i)

\* the last value at or before row j that is not null (null when there is none)
C2_LastValid(v, j) ==
    LET S == {k \in 1..j : v[k].k # "null"}
    IN IF S = {} THEN Null ELSE v[CHOOSE k \in S : \A l \in S : l <= k]

\* the value of row i from the current and the prior value
C2_Value(cur, prev) ==
    CASE cur.k = "null" \/ prev.k = "null" -> Null
      [] prev.n # 0 -> C2_Formula(cur, prev)
      [] cur.n = 0 -> Null
      [] cur.n > 0 -> Inf(1)
      [] OTHER -> Inf(-1)

C2_AmendedValue(v, i) ==
    IF i = 1 THEN Null
    ELSE IF fill_method = "pad"
    THEN C2_Value(C2_LastValid(v, i), C2_LastValid(v, i - 1))
    ELSE C2_Value(v[i], v[i - 1])

\* C2 amended: the MoM value is null in the first row and the formula when
\* both values are non-null and the prior non-zero; a zero prior gives
\* +inf or -inf by the sign of the current value (null for 0/0); a null
\* current or prior value gives null only when pct_change does not pad:
\* when it pads, the last non-null value before the row stands in for a null
C2_PctChange ==
    Computed =>
        \A i \in 1..Len(df.rows) :
            /\ Column(df, BUSINESS_MOM)[i] = C2_AmendedValue(Column(df, COL_BUSINESS), i)
            /\ Column(df, ECONOMY_MOM)[i] = C2_AmendedValue(Column(df, COL_ECONOMY), i)

\* a zero prior gave an infinite value, and a null was bridged by an earlier value
C2_Witness ==
    /\ Computed
    /\ \E i \in 2..Len(df.rows) :
        /\ Column(df, COL_BUSINESS)[i - 1] = Num(0, 1)
        /\ Column(df, BUSINESS_MOM)[i].k = "inf"
    /\ \E j \in 3..Len(df.rows) :
        /\ Column(df, COL_ECONOMY)[j - 1].k = "null"
        /\ Column(df, COL_ECONOMY)[j - 2] # Column(df, COL_ECONOMY)[j]
        /\ Column(df, ECONOMY_MOM)[j].k = "num"

(* C3 *)

C3_Flag(b, e) ==
    /\ (e.k = "num" /\ e.n < (-10) * e.d) \/ (e.k = "inf" /\ e.n = -1)
    /\ b.k = "num" /\ (-3) * b.d <= b.n /\ b.n <= 3 * b.d

\* C3: after detect_revenue_leakage a row is flagged iff Economy_MoM_pct < -10
\* and -3 <= Business_MoM_pct <= 3; never when either is null, never in the
\* first row, not at economy exactly -10, and at business exactly -3 or +3
C3_LeakageRule ==
    Detected =>
        \A i \in 1..Len(df.rows) :
            LET b == Column(df, BUSINESS_MOM)[i]
                e == Column(df, ECONOMY_MOM)[i]
                flag == Column(df, REVENUE_LEAKAGE)[i]
            IN /\ flag \in {Bool(TRUE), Bool(FALSE)}
               /\ flag = Bool(TRUE) <=> C3_Flag(b, e)
               /\ (b.k = "null" \/ e.k = "null") => flag = Bool(FALSE)
               /\ i = 1 => flag = Bool(FALSE)
               /\ e = Num(-10, 1) => flag = Bool(FALSE)
               /\ (b \in {Num(-3, 1), Num(3, 1)} /\ e.k = "num" /\ e.n < (-10) * e.d)
                    => flag = Bool(TRUE)

\* a row with business exactly +3% and economy below -10% is flagged
C3_Witness ==
    /\ Detected
    /\ \E i \in 1..Len(df.rows) :
        /\ Column(df, BUSINESS_MOM)[i] = Num(3, 1)
        /\ Column(df, ECONOMY_MOM)[i] = Num(-11, 1)
        /\ Column(df, REVENUE_LEAKAGE)[i] = Bool(TRUE)

(* C4 *)

C4_Keyword(target, i) ==
    LET s == Lower(raw.cols[i])
    IN CASE target = "business" -> Contains(s, "business") /\ ~Contains(s, "restricted")
         [] target = "economy" -> Contains(s, "restricted") /\ Contains(s, "economy")
         [] OTHER -> Contains(s, "best") /\ Contains(s, "discount")

\* the column the three strategies give, in their order
C4_Expected(target, canonical, pos) ==
    LET n == Len(raw.cols)
        kw == {i \in 1..n : C4_Keyword(target, i)}
    IN IF \E i \in 1..n : raw.cols[i] = canonical THEN canonical
       ELSE IF kw # {} THEN raw.cols[CHOOSE i \in kw : \A j \in kw : i <= j]
       ELSE IF n >= pos THEN raw.cols[pos]
       ELSE NoCol

\* C4: each of the business, economy and discount columns is the exact
\* canonical name if present, else the first column with the keywords, else
\* position 2, 6, 8; the schema error, with the column names, is raised
\* exactly when business or economy is unresolved after the three
C4_ResolutionOrder ==
    ResolutionRan =>
        /\ resolved.business = C4_Expected("business", COL_BUSINESS, 2)
        /\ resolved.economy = C4_Expected("economy", COL_ECONOMY, 6)
        /\ resolved.discount = C4_Expected("discount", COL_BEST_DISCOUNT, 8)
        /\ SchemaErrorRaised <=> (resolved.business = NoCol \/ resolved.economy = NoCol)
        /\ SchemaErrorRaised => err.cols = raw.cols

\* the exact business name wins over an earlier keyword column, economy
\* falls back to position 6, and the unresolved discount is no error
C4_Witness ==
    /\ ResolutionRan
    /\ ~SchemaErrorRaised
    /\ resolved.business = COL_BUSINESS
    /\ \E i \in 1..Len(raw.cols) : C4_Keyword("business", i) /\ i < ColPos(raw, COL_BUSINESS)
    /\ \A i \in 1..Len(raw.cols) : ~C4_Keyword("economy", i)
    /\ resolved.economy = raw.cols[6]
    /\ resolved.discount = NoCol

(* C5 *)

C5_Parses(c) == c.k = "datestr"
C5_Numeric(c) == c.k = "numstr"
C5_Coerced(c) == IF c.k = "numstr" THEN Num(c.n, 1) ELSE Null

\* C5: a raw row whose month parses is in the output of clean_data iff its
\* business or its economy value is numeric; a non-numeric index is null in
\* the row kept; the discount value decides nothing
C5_RowRetention ==
    Cleaned =>
        LET mp == ColPos(raw, COL_MONTH)
            bp == ColPos(raw, resolved.business)
            ep == ColPos(raw, resolved.economy)
            kept == {i \in 1..Len(raw.rows) :
                        /\ C5_Parses(raw.rows[i].cells[mp])
                        /\ C5_Numeric(raw.rows[i].cells[bp]) \/ C5_Numeric(raw.rows[i].cells[ep])}
        IN /\ {df.rows[j].id : j \in 1..Len(df.rows)} = {raw.rows[i].id : i \in kept}
           /\ Len(df.rows) = Cardinality(kept)
           /\ \A j \in 1..Len(df.rows) :
                LET r == raw.rows[df.rows[j].id]
                IN /\ Column(df, COL_BUSINESS)[j] = C5_Coerced(r.cells[bp])
                   /\ Column(df, COL_ECONOMY)[j] = C5_Coerced(r.cells[ep])

\* of two rows with a month, the one with a non-numeric business and
\* discount is kept, business null; the one with no numeric index is dropped
C5_Witness ==
    /\ Cleaned
    /\ Len(raw.rows) = 2
    /\ \A i \in 1..2 : C5_Parses(raw.rows[i].cells[ColPos(raw, COL_MONTH)])
    /\ Len(df.rows) = 1
    /\ Column(df, COL_BUSINESS)[1] = Null
    /\ Column(df, COL_ECONOMY)[1].k = "num"
    /\ Column(df, COL_BEST_DISCOUNT)[1] = Null

(* C6 *)

\* C6: once the business and economy columns resolve, no assignment of bad
\* months and non-numeric tokens to the rows makes main() raise
C6_RowIssuesNeverAbort ==
    (resolved.business # NoCol /\ resolved.economy # NoCol /\ Len(raw.rows) > 0)
        => pc # "failed"

(* C7 *)

\* C7: the chart is written only after the five stages completed; a fatal
\* error leaves no output file and no console report; and once the output
\* file is written the run does not fail
C7_OutputOnlyOnSuccess ==
    /\ html_written => (Cleaned /\ InColumns(df.cols, OFFICIAL_NOTE))
    /\ (pc = "failed" /\ err.at \in {"load_data", "clean_data"})
            => (~html_written /\ ~report_printed)
    /\ html_written => pc # "failed"

(* C8 *)

C8_Accepted(f, h) ==
    /\ f.headers[h + 1] # <<>>
    /\ LET cols == [i \in 1..Len(f.headers[h + 1]) |-> Strip(f.headers[h + 1][i])]
           unnamed == Cardinality({i \in 1..Len(cols) : cols[i][1] = "Unnamed:"})
       IN h = 4 \/ unnamed < Len(cols) - 1

\* C8: for a csv file load_data returns the table of the first offset in
\* 0..4 that parses and is not rejected; when there is none it fails with
\* the parse error and returns no table
C8_FirstAcceptedOffsetOrParseError ==
    (pc # "load_data" /\ TheFile.suffix = ".csv") =>
        LET acc == {h \in 0..4 : C8_Accepted(TheFile, h)}
        IN IF acc # {}
           THEN LET h == CHOOSE x \in acc : \A y \in acc : x <= y
                    r == Read(TheFile, h)
                IN /\ Loaded
                   /\ raw = CsvRenameMonth(StripColumns([cols |-> r.cols, rows |-> r.rows]))
           ELSE /\ pc = "failed"
                /\ err.at = "load_data"
                /\ err.type = "ParseError"

(* C9 *)

\* the header the file gives, stripped
C9_Header == [i \in 1..Len(TheFile.headers[1]) |-> Strip(TheFile.headers[1][i])]

C9_IsMonth(name) ==
    \E i \in 1..Len(name) : LowerWord(name[i]) \in {"month", "survey"}

\* the first column named after the month or the survey, else the first
C9_FirstMonthPos ==
    LET S == {i \in 1..Len(C9_Header) : C9_IsMonth(C9_Header[i])}
    IN IF S = {} THEN 1 ELSE CHOOSE i \in S : \A j \in S : i <= j

C10_ResolvedColumnsDistinct ==
    (ResolutionRan /\ ~SchemaErrorRaised) =>
        /\ resolved.business # resolved.economy
        /\ resolved.discount # NoCol =>
                resolved.discount \notin {resolved.business, resolved.economy}
        /\ COL_MONTH \notin {resolved.business, resolved.economy, resolved.discount}
        /\ Cleaned

====
